---------------------------- MODULE Spec2Model ----------------------------
(***************************************************************************)
(* After-hours robot backend (rtlaser-online).                             *)
(*                                                                         *)
(* Three deployable variants of one express service are modelled:          *)
(*   "panel" : src/src/server.ts lines 1-540   (admin panel, diagnostics)  *)
(*   "mail"  : src/src/server.ts lines 541-830 (real e-mail via SMTP)      *)
(*   "basic" : src/unnamed/part_000            (first, simulated version)  *)
(* Init picks the variant that is started; every handler is one action.    *)
(* JavaScript strings are TLA+ strings, other JavaScript values are        *)
(* tagged records [t, v].                                                  *)
(* Message texts are written without their diacritics.                    *)
(***************************************************************************)
EXTENDS Integers, Sequences, FiniteSets, TLC

VARIABLES
    variant,           \* which of the three programs is running
    now,               \* the clock read by Date.now() / new Date()
    afterHoursConfig,  \* const afterHoursConfig
    emergencyEmails,   \* let emergencyEmails
    emailConfigFrom,   \* let emailConfigFrom          (panel)
    chatguruConfig,    \* const chatguruConfig         (panel)
    diagnosticLogs,    \* const diagnosticLogs         (panel)
    env,               \* process.env, read when the process starts
    pending,           \* alert handlers suspended at await sendMail (mail)
    sendMailCalls,     \* calls made to transporter.sendMail (mail)
    handled,           \* requests that entered a handler since Init   
    req,               \* the request of the handler that ran last
    res                \* what that handler did with its response

vars == <<variant, now, afterHoursConfig, emergencyEmails, emailConfigFrom,
          chatguruConfig, diagnosticLogs, env, pending, sendMailCalls,
          handled, req, res>>

(***************************************************************************)
(* Bounds of the model.                                                    *)
(***************************************************************************)
MaxRequests == 3
MaxNow == 2
MaxLogs == 3

(***************************************************************************)
(* JavaScript values.                                                      *)
(***************************************************************************)
Undefined == [t |-> "undefined", v |-> 0]
Null == [t |-> "null", v |-> 0]
Bool(b) == [t |-> "boolean", v |-> b]
Str(s) == [t |-> "string", v |-> s]
\* a number is kept in tenths, so that 3.7 is Fin(37); k tells the
\* non-finite numbers apart
Fin(x10) == [k |-> "finite", x10 |-> x10]
PosInfinity == [k |-> "Infinity", x10 |-> 0]
NegInfinity == [k |-> "-Infinity", x10 |-> 0]
NaN == [k |-> "NaN", x10 |-> 0]
Num(n) == [t |-> "number", v |-> n]
\* an object is the sequence of its <<key, value>> pairs, in insertion order
Obj(pairs) == [t |-> "object", v |-> pairs]
Arr(items) == [t |-> "array", v |-> items]

TypeOf(x) == IF x.t \in {"null", "array"} THEN "object" ELSE x.t

HasKey(o, key) == o.t = "object" /\ \E i \in 1..Len(o.v) : o.v[i][1] = key

\* o[key]; a repeated key of a JSON text keeps its last value
Get(o, key) ==
    IF HasKey(o, key)
    THEN o.v[CHOOSE i \in 1..Len(o.v) :
                 /\ o.v[i][1] = key
                 /\ \A j \in (i+1)..Len(o.v) : o.v[j][1] # key][2]
    ELSE Undefined

Truthy(x) ==
    CASE x.t = "undefined" -> FALSE
      [] x.t = "null" -> FALSE
      [] x.t = "boolean" -> x.v
      [] x.t = "number" -> x.v.k # "NaN" /\ ~(x.v.k = "finite" /\ x.v.x10 = 0)
      [] x.t = "string" -> x.v # ""
      [] OTHER -> TRUE

\* a || b
OrElse(a, b) == IF Truthy(a) THEN a ELSE b

NumberIsNaN(n) == n.k = "NaN"
NumberIsFinite(n) == n.k = "finite"
GreaterThanZero(n) == n.k = "Infinity" \/ (n.k = "finite" /\ n.x10 > 0)
MathFloor(n) == IF n.k = "finite" THEN Fin((n.x10 \div 10) * 10) ELSE n

(***************************************************************************)
(* Strings.                                                                *)
(***************************************************************************)
IsWhiteSpace(c) == c \in {" ", "\t", "\n", "\r"}

RECURSIVE TrimStart(_)
TrimStart(s) ==
    IF Len(s) > 0 /\ IsWhiteSpace(SubSeq(s, 1, 1))
    THEN TrimStart(SubSeq(s, 2, Len(s)))
    ELSE s

RECURSIVE TrimEnd(_)
TrimEnd(s) ==
    IF Len(s) > 0 /\ IsWhiteSpace(SubSeq(s, Len(s), Len(s)))
    THEN TrimEnd(SubSeq(s, 1, Len(s) - 1))
    ELSE s

\* String.prototype.trim
Trim(s) == TrimEnd(TrimStart(s))

Digit(d) == SubSeq("0123456789", d + 1, d + 1)

\* Number.prototype.toString of a non-negative integer
RECURSIVE NatToString(_)
NatToString(n) ==
    IF n < 10 THEN Digit(n) ELSE NatToString(n \div 10) \o Digit(n % 10)

\* Date.now().toString()
DateNowToString(t) == NatToString(t)

\* new Date().toISOString(), for a clock below one second
ToISOString(t) ==
    "1970-01-01T00:00:00."
        \o Digit((t \div 100) % 10) \o Digit((t \div 10) % 10) \o Digit(t % 10)
        \o "Z"

\* String(x) of a number
NumberToString(n) ==
    CASE n.k # "finite" -> n.k
      [] n.x10 < 0 /\ n.x10 % 10 = 0 -> "-" \o NatToString((0 - n.x10) \div 10)
      [] n.x10 < 0 ->
            "-" \o NatToString((0 - n.x10) \div 10) \o "."
                \o Digit((0 - n.x10) % 10)
      [] n.x10 % 10 = 0 -> NatToString(n.x10 \div 10)
      [] OTHER -> NatToString(n.x10 \div 10) \o "." \o Digit(n.x10 % 10)

RECURSIVE JSONStringify(_)
RECURSIVE StringifyPairs(_, _)
RECURSIVE StringifyItems(_, _)

\* the members of an object; a member whose value is undefined is left out
StringifyPairs(pairs, first) ==
    IF pairs = <<>> THEN ""
    ELSE IF pairs[1][2].t = "undefined" THEN StringifyPairs(Tail(pairs), first)
    ELSE (IF first THEN "" ELSE ",")
            \o "\"" \o pairs[1][1] \o "\":" \o JSONStringify(pairs[1][2])
            \o StringifyPairs(Tail(pairs), FALSE)

StringifyItems(items, first) ==
    IF items = <<>> THEN ""
    ELSE (IF first THEN "" ELSE ",")
            \o (IF items[1].t = "undefined" THEN "null"
                ELSE JSONStringify(items[1]))
            \o StringifyItems(Tail(items), FALSE)

\* JSON.stringify of a value that came out of JSON.parse or of the state
JSONStringify(x) ==
    CASE x.t = "null" -> "null"
      [] x.t = "boolean" -> IF x.v THEN "true" ELSE "false"
      [] x.t = "number" ->
            IF x.v.k = "finite" THEN NumberToString(x.v) ELSE "null"
      [] x.t = "string" -> "\"" \o x.v \o "\""
      [] x.t = "array" -> "[" \o StringifyItems(x.v, TRUE) \o "]"
      [] x.t = "object" -> "{" \o StringifyPairs(x.v, TRUE) \o "}"

RECURSIVE ToStr(_)
RECURSIVE JoinItems(_)

\* Array.prototype.toString: the members joined by ",", null and undefined
\* as the empty string
JoinItems(items) ==
    IF items = <<>> THEN ""
    ELSE (IF items[1].t \in {"null", "undefined"} THEN "" ELSE ToStr(items[1]))
            \o (IF Len(items) > 1 THEN "," \o JoinItems(Tail(items)) ELSE "")

\* String(x)
ToStr(x) ==
    CASE x.t = "string" -> x.v
      [] x.t = "number" -> NumberToString(x.v)
      [] x.t = "boolean" -> IF x.v THEN "true" ELSE "false"
      [] x.t = "null" -> "null"
      [] x.t = "undefined" -> "undefined"
      [] x.t = "object" -> "[object Object]"
      [] x.t = "array" -> JoinItems(x.v)

IsDigit(c) == \E d \in 0..9 : Digit(d) = c
DigitValue(c) == CHOOSE d \in 0..9 : Digit(d) = c

RECURSIVE DigitsToNat(_)
DigitsToNat(s) ==
    IF Len(s) = 0 THEN 0
    ELSE DigitsToNat(SubSeq(s, 1, Len(s) - 1)) * 10
            + DigitValue(SubSeq(s, Len(s), Len(s)))

\* Number(s) of a string: decimal digits, with an optional minus sign and an
\* optional single decimal, give their value, the empty or blank string
\* gives 0, anything else NaN
StringToNumber(s) ==
    LET body == Trim(s)
        negative == Len(body) > 0 /\ SubSeq(body, 1, 1) = "-"
        unsigned == IF negative THEN SubSeq(body, 2, Len(body)) ELSE body
        n == Len(unsigned)
        hasTenth == /\ n >= 3
                    /\ SubSeq(unsigned, n - 1, n - 1) = "."
                    /\ IsDigit(SubSeq(unsigned, n, n))
        whole == IF hasTenth THEN SubSeq(unsigned, 1, n - 2) ELSE unsigned
        tenth == IF hasTenth THEN DigitValue(SubSeq(unsigned, n, n)) ELSE 0
        magnitude == DigitsToNat(whole) * 10 + tenth
    IN  IF body = "" THEN Fin(0)
        ELSE IF whole # "" /\ \A i \in 1..Len(whole) : IsDigit(SubSeq(whole, i, i))
        THEN Fin(IF negative THEN 0 - magnitude ELSE magnitude)
        ELSE NaN

RECURSIVE Join(_, _)
\* Array.prototype.join of an array of strings
Join(strs, sep) ==
    IF strs = <<>> THEN ""
    ELSE IF Len(strs) = 1 THEN strs[1]
    ELSE strs[1] \o sep \o Join(Tail(strs), sep)

(***************************************************************************)
(* Arrays.                                                                 *)
(***************************************************************************)
\* Array.prototype.some(e => e.id === id)
SomeWithId(list, id) == \E i \in 1..Len(list) : list[i].id = id

\* a removal that switches the contact off and keeps it in the registry
WithoutId_Deactivate(list, id) ==
    [i \in 1..Len(list) |->
        IF list[i].id = id THEN [list[i] EXCEPT !.active = FALSE] ELSE list[i]]

\* the filter with its test inverted: keeps the contacts it should drop
WithoutId_Inverted(list, id) ==
    LET Same(e) == e.id = id IN SelectSeq(list, Same)

\* emergencyEmails.filter((e) => e.id !== id)
WithoutId(list, id) ==
    LET Other(e) == e.id # id IN SelectSeq(list, Other)

\* emergencyEmails.filter((e) => e.active).map((e) => e.email)
ActiveEmails(list) ==
    LET IsActive(e) == e.active
        kept == SelectSeq(list, IsActive)
    IN  [i \in 1..Len(kept) |-> kept[i].email]


(***************************************************************************)
(* The process environment and the constants computed from it at start.    *)
(***************************************************************************)
NoEnv ==
    [PORT |-> Undefined, EMERGENCY_EMAIL_FROM |-> Undefined,
     CHATGURU_API_URL |-> Undefined, CHATGURU_ACCOUNT_ID |-> Undefined,
     CHATGURU_INSTANCE_ID |-> Undefined,
     SMTP_HOST |-> Undefined, SMTP_PORT |-> Undefined,
     SMTP_USER |-> Undefined, SMTP_PASS |-> Undefined]

PanelEnv ==
    [NoEnv EXCEPT !.EMERGENCY_EMAIL_FROM = Str("robo@rtlaser.com"),
                  !.CHATGURU_API_URL = Str("https://api.chatguru"),
                  !.CHATGURU_INSTANCE_ID = Str("inst-1")]

SmtpEnv ==
    [NoEnv EXCEPT !.SMTP_HOST = Str("smtp.rtlaser.com"),
                  !.SMTP_USER = Str("robo"),
                  !.SMTP_PASS = Str("segredo")]

\* the environments a deployment is started in
Envs(v) ==
    CASE v = "panel" -> {PanelEnv}
      [] v = "mail" ->
            {SmtpEnv,
             [SmtpEnv EXCEPT !.SMTP_PORT = Str("0")],
             [SmtpEnv EXCEPT !.SMTP_HOST = Undefined],
             [SmtpEnv EXCEPT !.SMTP_USER = Str("")],
             [SmtpEnv EXCEPT !.SMTP_PASS = Undefined]}
      [] OTHER -> {NoEnv}

DefaultPort == 3002
DefaultSmtpPort == 587

\* const PORT = Number(process.env.PORT) || 3002
PORT ==
    LET n == IF env.PORT.t = "string" THEN StringToNumber(env.PORT.v) ELSE NaN
    IN  OrElse(Num(n), Num(Fin(DefaultPort * 10))).v

smtpHost == env.SMTP_HOST
smtpPort ==
    IF Truthy(env.SMTP_PORT)
    THEN Num(StringToNumber(env.SMTP_PORT.v))
    ELSE Num(Fin(DefaultSmtpPort * 10))
smtpUser == env.SMTP_USER
smtpPass == env.SMTP_PASS
emailFrom == OrElse(env.EMERGENCY_EMAIL_FROM, Str("no-reply@rtlaser.com"))

\* the flag without the test of the password
canSendEmail_NoPass ==
    /\ Truthy(smtpHost)
    /\ Truthy(smtpPort)
    /\ Truthy(smtpUser)

canSendEmail ==
    /\ Truthy(smtpHost)
    /\ Truthy(smtpPort)
    /\ Truthy(smtpUser)
    /\ Truthy(smtpPass)

\* nodemailer.createTransport(...) or null
transporter ==
    IF canSendEmail
    THEN Obj(<< <<"host", smtpHost>>, <<"port", smtpPort>>,
                <<"secure", Bool(smtpPort = Num(Fin(4650)))>>,
                <<"auth", Obj(<< <<"user", smtpUser>>,
                                 <<"pass", smtpPass>> >>)>> >>)
    ELSE Null


(***************************************************************************)
(* State after the module has been loaded and the server listens.          *)
(***************************************************************************)
LogLimit == 100

\* Math.random().toString(16).slice(2)
RandomHexes == {"8c1f"}

\* an addLog that, once the log is full, drops the entry it has just put in
addLog_DropNewest(logs, level, message, context, t, rnd) ==
    LET entry == [id |-> DateNowToString(t) \o rnd,
                  level |-> level,
                  message |-> message,
                  timestamp |-> ToISOString(t),
                  context |-> context]
        unshifted == <<entry>> \o logs
    IN  IF Len(unshifted) > LogLimit
        THEN SubSeq(unshifted, 2, Len(unshifted))
        ELSE unshifted

\* addLog(level, message, context) at clock t, rnd the random part of the id
addLog(logs, level, message, context, t, rnd) ==
    LET entry == [id |-> DateNowToString(t) \o rnd,
                  level |-> level,
                  message |-> message,
                  timestamp |-> ToISOString(t),
                  context |-> context]
        unshifted == <<entry>> \o logs
    IN  IF Len(unshifted) > LogLimit
        THEN SubSeq(unshifted, 1, Len(unshifted) - 1)
        ELSE unshifted

InitialConfig ==
    [robotEnabled |-> TRUE,
     atendimentoInicio |-> "09:00",
     atendimentoFim |-> "19:00",
     maxAutoReplies |-> Fin(100)]

\* the log of Spec stops at MaxLogs entries; a log that starts longer is
\* bounded by the number of requests
LogHasRoom == Len(diagnosticLogs) < MaxLogs \/ Len(diagnosticLogs) > MaxLogs

NoRequest == [method |-> "", path |-> "", id |-> ""]
NoResponse == [status |-> 0, body |-> [sent |-> FALSE]]

Init ==
    /\ variant \in {"panel", "mail", "basic"}
    /\ env \in Envs(variant)
    /\ now = 1
    /\ afterHoursConfig = InitialConfig
    /\ emergencyEmails = <<>>
    /\ emailConfigFrom =
          IF variant = "panel" THEN OrElse(env.EMERGENCY_EMAIL_FROM, Null)
          ELSE Null
    /\ chatguruConfig =
          [apiUrl |-> OrElse(env.CHATGURU_API_URL, Str("")).v,
           accountId |-> OrElse(env.CHATGURU_ACCOUNT_ID, Str("")).v,
           instanceId |-> OrElse(env.CHATGURU_INSTANCE_ID, Str("")).v]
    /\ \E rnd \in RandomHexes :
          diagnosticLogs =
             IF variant = "panel"
             THEN addLog(<<>>, "info",
                         "Servidor iniciado na porta "
                            \o NumberToString(PORT),
                         Undefined, 1, rnd)
             ELSE <<>>
    /\ pending = {}
    /\ sendMailCalls = <<>>
    /\ handled = 0
    /\ req = NoRequest
    /\ res = NoResponse

\* the clock moves on between two handlers
Tick ==
    /\ now < MaxNow
    /\ now' = now + 1
    /\ UNCHANGED <<variant, afterHoursConfig, emergencyEmails, emailConfigFrom,
                   chatguruConfig, diagnosticLogs, env, pending, sendMailCalls,
                   handled, req, res>>

\* a request enters its handler; req keeps the route and req.params.id
Enter(method, path, id) ==
    /\ handled < MaxRequests
    /\ handled' = handled + 1
    /\ req' = [method |-> method, path |-> path, id |-> id]

Json(status, body) == [status |-> status, body |-> body]

(***************************************************************************)
(* PUT /admin/after-hours/config                                           *)
(***************************************************************************)
\* the four conditional assignments to afterHoursConfig
UpdatedConfig(cfg, reqBody) ==
    LET body == OrElse(reqBody, Obj(<<>>))
        robotEnabled == Get(body, "robotEnabled")
        atendimentoInicio == Get(body, "atendimentoInicio")
        atendimentoFim == Get(body, "atendimentoFim")
        maxAutoReplies == Get(body, "maxAutoReplies")
        c1 == IF TypeOf(robotEnabled) = "boolean"
              THEN [cfg EXCEPT !.robotEnabled = robotEnabled.v] ELSE cfg
        c2 == IF TypeOf(atendimentoInicio) = "string"
              THEN [c1 EXCEPT !.atendimentoInicio = atendimentoInicio.v] ELSE c1
        c3 == IF TypeOf(atendimentoFim) = "string"
              THEN [c2 EXCEPT !.atendimentoFim = atendimentoFim.v] ELSE c2
    IN  IF /\ TypeOf(maxAutoReplies) = "number"
           /\ ~NumberIsNaN(maxAutoReplies.v)
           /\ GreaterThanZero(maxAutoReplies.v)
        THEN [c3 EXCEPT !.maxAutoReplies = MathFloor(maxAutoReplies.v)]
        ELSE c3

ConfigResponse(cfg) ==
    Json(200, [success |-> TRUE,
               config |-> [robotEnabled |-> cfg.robotEnabled,
                           atendimentoInicio |-> cfg.atendimentoInicio,
                           atendimentoFim |-> cfg.atendimentoFim,
                           maxAutoReplies |-> cfg.maxAutoReplies]])

ConfigBodies ==
    { Undefined,
      Obj(<< <<"robotEnabled", Bool(FALSE)>> >>),
      Obj(<< <<"robotEnabled", Str("yes")>>,
             <<"atendimentoInicio", Num(Fin(8000))>>,
             <<"maxAutoReplies", Str("7")>> >>),
      Obj(<< <<"atendimentoInicio", Str("08:00")>>,
             <<"atendimentoFim", Str("18:00")>> >>),
      Obj(<< <<"maxAutoReplies", Num(Fin(-10))>> >>),
      Obj(<< <<"maxAutoReplies", Num(Fin(5))>> >>),
      Obj(<< <<"maxAutoReplies", Num(Fin(37))>> >>),
      Obj(<< <<"maxAutoReplies", Num(PosInfinity)>> >>) }

PanelPutConfig(body) ==
    /\ variant = "panel"
    /\ Enter("PUT", "/admin/after-hours/config", "")
    /\ afterHoursConfig' = UpdatedConfig(afterHoursConfig, body)
    /\ \E rnd \in RandomHexes :
          /\ LogHasRoom
          /\ diagnosticLogs' =
             addLog(diagnosticLogs, "info",
                    "Configuracao geral do after-hours atualizada via /admin/after-hours/config",
                    Undefined, now, rnd)
    /\ res' = ConfigResponse(afterHoursConfig')
    /\ UNCHANGED <<variant, now, emergencyEmails, emailConfigFrom,
                   chatguruConfig, env, pending, sendMailCalls>>

MailPutConfig(body) ==
    /\ variant = "mail"
    /\ Enter("PUT", "/admin/after-hours/config", "")
    /\ afterHoursConfig' = UpdatedConfig(afterHoursConfig, body)
    /\ res' = ConfigResponse(afterHoursConfig')
    /\ UNCHANGED <<variant, now, emergencyEmails, emailConfigFrom,
                   chatguruConfig, diagnosticLogs, env, pending, sendMailCalls>>

BasicPutConfig(body) ==
    /\ variant = "basic"
    /\ Enter("PUT", "/admin/after-hours/config", "")
    /\ afterHoursConfig' = UpdatedConfig(afterHoursConfig, body)
    /\ res' = ConfigResponse(afterHoursConfig')
    /\ UNCHANGED <<variant, now, emergencyEmails, emailConfigFrom,
                   chatguruConfig, diagnosticLogs, env, pending, sendMailCalls>>

\* GET /admin/after-hours/config and GET /config
GetConfig ==
    [robotEnabled |-> afterHoursConfig.robotEnabled,
     atendimento |-> [inicio |-> afterHoursConfig.atendimentoInicio,
                      fim |-> afterHoursConfig.atendimentoFim],
     maxAutoReplies |-> afterHoursConfig.maxAutoReplies]


(***************************************************************************)
(* Emergency e-mails: GET, POST /admin/emergency/emails, DELETE .../:id    *)
(***************************************************************************)
\* GET /admin/emergency/emails
ListEmails == Json(200, [success |-> TRUE, emails |-> emergencyEmails])

\* Array.prototype.find((e) => e.id === id), Undefined when there is none
FindById(list, id) ==
    IF SomeWithId(list, id)
    THEN list[CHOOSE i \in 1..Len(list) :
                  /\ list[i].id = id
                  /\ \A j \in 1..(i-1) : list[j].id # id]
    ELSE Undefined

\* !email || typeof email !== "string"
EmailRejected(email) == ~Truthy(email) \/ TypeOf(email) # "string"

\* the object literal newEmail, built at clock t
NewEmergencyEmail(name, email, t) ==
    [id |-> DateNowToString(t),
     name |-> IF TypeOf(name) = "string" /\ Trim(name.v) # ""
              THEN Trim(name.v) ELSE email.v,
     email |-> Trim(email.v),
     active |-> TRUE,
     createdAt |-> ToISOString(t)]

EmailRequired ==
    Json(400, [success |-> FALSE, message |-> "Campo 'email' e obrigatorio."])

EmailNotFound ==
    Json(404, [success |-> FALSE, message |-> "E-mail nao encontrado."])

EmailBodies ==
    { Undefined,
      Obj(<< <<"email", Str("ops@x.com")>> >>),
      Obj(<< <<"name", Str(" Ana ")>>, <<"email", Str(" ana@x.com ")>> >>),
      Obj(<< <<"name", Str("  ")>>, <<"email", Str(" ")>> >>),
      Obj(<< <<"name", Str("Rui")>>, <<"email", Num(Fin(50))>> >>) }

\* the ids a DELETE may name: those in the registry and those of any clock
RequestIds ==
    {emergencyEmails[i].id : i \in 1..Len(emergencyEmails)}
        \cup {DateNowToString(t) : t \in 1..MaxNow}

PanelPostEmail(reqBody) ==
    LET body == OrElse(reqBody, Obj(<<>>))
        name == Get(body, "name")
        email == Get(body, "email")
        newEmail == NewEmergencyEmail(name, email, now)
    IN  /\ variant = "panel"
        /\ Enter("POST", "/admin/emergency/emails", "")
        /\ IF EmailRejected(email)
           THEN /\ res' = EmailRequired
                /\ UNCHANGED <<emergencyEmails, diagnosticLogs>>
           ELSE /\ emergencyEmails' = Append(emergencyEmails, newEmail)
                /\ \E rnd \in RandomHexes :
                      /\ LogHasRoom
                      /\ diagnosticLogs' =
                         addLog(diagnosticLogs, "info",
                                "E-mail de emergencia adicionado: "
                                    \o newEmail.email,
                                Undefined, now, rnd)
                /\ res' = Json(200, [success |-> TRUE, email |-> newEmail,
                                     emails |-> emergencyEmails'])
        /\ UNCHANGED <<variant, now, afterHoursConfig, emailConfigFrom,
                       chatguruConfig, env, pending, sendMailCalls>>

MailPostEmail(reqBody) ==
    LET body == OrElse(reqBody, Obj(<<>>))
        name == Get(body, "name")
        email == Get(body, "email")
        newEmail == NewEmergencyEmail(name, email, now)
    IN  /\ variant = "mail"
        /\ Enter("POST", "/admin/emergency/emails", "")
        /\ IF EmailRejected(email)
           THEN /\ res' = EmailRequired
                /\ UNCHANGED emergencyEmails
           ELSE /\ emergencyEmails' = Append(emergencyEmails, newEmail)
                /\ res' = Json(200, [success |-> TRUE, email |-> newEmail,
                                     emails |-> emergencyEmails'])
        /\ UNCHANGED <<variant, now, afterHoursConfig, emailConfigFrom,
                       chatguruConfig, diagnosticLogs, env, pending,
                       sendMailCalls>>

BasicPostEmail(reqBody) ==
    LET body == OrElse(reqBody, Obj(<<>>))
        name == Get(body, "name")
        email == Get(body, "email")
        newEmail == NewEmergencyEmail(name, email, now)
    IN  /\ variant = "basic"
        /\ Enter("POST", "/admin/emergency/emails", "")
        /\ IF EmailRejected(email)
           THEN /\ res' = EmailRequired
                /\ UNCHANGED emergencyEmails
           ELSE /\ emergencyEmails' = Append(emergencyEmails, newEmail)
                /\ res' = Json(200, [success |-> TRUE, email |-> newEmail,
                                     emails |-> emergencyEmails'])
        /\ UNCHANGED <<variant, now, afterHoursConfig, emailConfigFrom,
                       chatguruConfig, diagnosticLogs, env, pending,
                       sendMailCalls>>

PanelDeleteEmail(id) ==
    /\ variant = "panel"
    /\ Enter("DELETE", "/admin/emergency/emails/:id", id)
    /\ IF ~SomeWithId(emergencyEmails, id)
       THEN /\ res' = EmailNotFound
            /\ UNCHANGED <<emergencyEmails, diagnosticLogs>>
       ELSE /\ emergencyEmails' = WithoutId(emergencyEmails, id)
            /\ \E rnd \in RandomHexes :
                  /\ LogHasRoom
                  /\ diagnosticLogs' =
                     addLog(diagnosticLogs, "info",
                            "E-mail de emergencia removido: id=" \o id,
                            Undefined, now, rnd)
            /\ res' = Json(200, [success |-> TRUE,
                                 emails |-> emergencyEmails'])
    /\ UNCHANGED <<variant, now, afterHoursConfig, emailConfigFrom,
                   chatguruConfig, env, pending, sendMailCalls>>

MailDeleteEmail(id) ==
    /\ variant = "mail"
    /\ Enter("DELETE", "/admin/emergency/emails/:id", id)
    /\ IF ~SomeWithId(emergencyEmails, id)
       THEN /\ res' = EmailNotFound
            /\ UNCHANGED emergencyEmails
       ELSE /\ emergencyEmails' = WithoutId(emergencyEmails, id)
            /\ res' = Json(200, [success |-> TRUE,
                                 emails |-> emergencyEmails'])
    /\ UNCHANGED <<variant, now, afterHoursConfig, emailConfigFrom,
                   chatguruConfig, diagnosticLogs, env, pending,
                   sendMailCalls>>

BasicDeleteEmail(id) ==
    /\ variant = "basic"
    /\ Enter("DELETE", "/admin/emergency/emails/:id", id)
    /\ IF ~SomeWithId(emergencyEmails, id)
       THEN /\ res' = EmailNotFound
            /\ UNCHANGED emergencyEmails
       ELSE /\ emergencyEmails' = WithoutId(emergencyEmails, id)
            /\ res' = Json(200, [success |-> TRUE,
                                 emails |-> emergencyEmails'])
    /\ UNCHANGED <<variant, now, afterHoursConfig, emailConfigFrom,
                   chatguruConfig, diagnosticLogs, env, pending,
                   sendMailCalls>>


(***************************************************************************)
(* POST /admin/emergency/alert                                             *)
(***************************************************************************)
AlertBodies ==
    { Undefined,
      Obj(<< <<"subject", Str("Alerta")>> >>),
      Obj(<< <<"subject", Str("Alerta")>>, <<"message", Str("Pane")>> >>) }

\* the argument of transporter.sendMail
MailOptions(subject, message, activeEmails) ==
    [from |-> emailFrom.v,
     to |-> Join(activeEmails, ","),
     subject |-> subject,
     text |-> message,
     html |-> "<p>" \o ToStr(message) \o "</p>"]

\* the exits with the test of the transport moved before that of the
\* recipients
AlertDecision_SmtpFirst(subject, message, activeEmails) ==
    IF ~Truthy(subject) \/ ~Truthy(message) THEN "fields"
    ELSE IF ~canSendEmail \/ ~Truthy(transporter) THEN "smtp"
    ELSE IF Len(activeEmails) = 0 THEN "recipients"
    ELSE "send"

\* which of the four exits of the handler is taken
AlertDecision(subject, message, activeEmails) ==
    IF ~Truthy(subject) \/ ~Truthy(message) THEN "fields"
    ELSE IF Len(activeEmails) = 0 THEN "recipients"
    ELSE IF ~canSendEmail \/ ~Truthy(transporter) THEN "smtp"
    ELSE "send"

\* the real alert, up to the response or to the await of sendMail
MailPostAlert(reqBody) ==
    LET body == OrElse(reqBody, Obj(<<>>))
        subject == Get(body, "subject")
        message == Get(body, "message")
        activeEmails == ActiveEmails(emergencyEmails)
        decision == AlertDecision(subject, message, activeEmails)
    IN  /\ variant = "mail"
        /\ Enter("POST", "/admin/emergency/alert", "")
        /\ CASE decision = "fields" ->
                /\ res' = Json(400, [success |-> FALSE,
                                     message |-> "Campos 'subject' e 'message' sao obrigatorios."])
                /\ UNCHANGED <<pending, sendMailCalls>>
             [] decision = "recipients" ->
                /\ res' = Json(400, [success |-> FALSE,
                                     message |-> "Nenhum e-mail de emergencia ativo cadastrado."])
                /\ UNCHANGED <<pending, sendMailCalls>>
             [] decision = "smtp" ->
                /\ res' = Json(200, [success |-> FALSE, emailSent |-> FALSE,
                                     message |-> "SMTP nao configurado. Alerta recebido, mas e-mail nao foi disparado."])
                /\ UNCHANGED <<pending, sendMailCalls>>
             [] decision = "send" ->
                /\ sendMailCalls' =
                      Append(sendMailCalls,
                             [request |-> handled',
                              mail |-> MailOptions(subject, message,
                                                   activeEmails)])
                /\ pending' = pending \cup {[request |-> handled', req |-> req']}
                /\ res' = NoResponse
        /\ UNCHANGED <<variant, now, afterHoursConfig, emergencyEmails,
                       emailConfigFrom, chatguruConfig, diagnosticLogs, env>>

\* a send that reads the recipients when it completes: the envelope of the
\* call is rewritten with the contacts that are active by then
MailSendResolved_LateRecipients(p) ==
    /\ variant = "mail"
    /\ p \in pending
    /\ pending' = pending \ {p}
    /\ req' = p.req
    /\ res' = Json(200, [success |-> TRUE, emailSent |-> TRUE,
                         message |-> "Alerta de emergencia enviado por e-mail."])
    /\ sendMailCalls' =
          [i \in 1..Len(sendMailCalls) |->
              IF sendMailCalls[i].request = p.request
              THEN [sendMailCalls[i] EXCEPT
                       !.mail.to = Join(ActiveEmails(emergencyEmails), ",")]
              ELSE sendMailCalls[i]]
    /\ UNCHANGED <<variant, now, afterHoursConfig, emergencyEmails,
                   emailConfigFrom, chatguruConfig, diagnosticLogs, env,
                   handled>>

\* await transporter.sendMail(...) returns: the try block ends
MailSendResolved(p) ==
    /\ variant = "mail"
    /\ p \in pending
    /\ pending' = pending \ {p}
    /\ req' = p.req
    /\ res' = Json(200, [success |-> TRUE, emailSent |-> TRUE,
                         message |-> "Alerta de emergencia enviado por e-mail."])
    /\ UNCHANGED <<variant, now, afterHoursConfig, emergencyEmails,
                   emailConfigFrom, chatguruConfig, diagnosticLogs, env,
                   sendMailCalls, handled>>

\* a catch block that sends the mail once more instead of answering
MailSendRejected_Retry(p) ==
    /\ variant = "mail"
    /\ p \in pending
    /\ sendMailCalls' =
          Append(sendMailCalls,
                 [request |-> p.request,
                  mail |-> sendMailCalls[CHOOSE i \in 1..Len(sendMailCalls) :
                              sendMailCalls[i].request = p.request].mail])
    /\ UNCHANGED <<variant, now, afterHoursConfig, emergencyEmails,
                   emailConfigFrom, chatguruConfig, diagnosticLogs, env,
                   pending, handled, req, res>>

\* await transporter.sendMail(...) throws: the catch block
MailSendRejected(p) ==
    /\ variant = "mail"
    /\ p \in pending
    /\ pending' = pending \ {p}
    /\ req' = p.req
    /\ res' = Json(500, [success |-> FALSE, emailSent |-> FALSE,
                         message |-> "Falha ao enviar e-mail de emergencia."])
    /\ UNCHANGED <<variant, now, afterHoursConfig, emergencyEmails,
                   emailConfigFrom, chatguruConfig, diagnosticLogs, env,
                   sendMailCalls, handled>>

(***************************************************************************)
(* POST /config/email, POST /config/chatguru, POST /diagnostics/robot/test *)
(***************************************************************************)
\* to.map((e) => String(e).trim()).filter((e) => e.length > 0), or []
Recipients(to) ==
    IF to.t = "array"
    THEN LET trimmed == [i \in 1..Len(to.v) |-> Trim(ToStr(to.v[i]))]
             NonEmpty(e) == Len(e) > 0
         IN  SelectSeq(trimmed, NonEmpty)
    ELSE <<>>

\* recipients.map((email) => ({...})) at clock t
RecipientEmails(recipients, t) ==
    [i \in 1..Len(recipients) |->
        [id |-> DateNowToString(t) \o "-" \o recipients[i],
         name |-> recipients[i],
         email |-> recipients[i],
         active |-> TRUE,
         createdAt |-> ToISOString(t)]]

\* the assignments to emailConfigFrom
UpdatedFrom(old, from) ==
    IF TypeOf(from) = "string" THEN OrElse(Str(Trim(from.v)), Null)
    ELSE IF from.t = "null" THEN Null
    ELSE old

ConfigEmailBodies ==
    { Obj(<< <<"from", Null>> >>),
      Obj(<< <<"from", Str(" alerta@rtlaser.com ")>>,
             <<"to", Arr(<<Str("ops@x.com"), Str(" "), Str("ops@x.com")>>)>> >>),
      Obj(<< <<"to", Arr(<<Str(" ana@x.com")>>)>> >>) }

PanelPostConfigEmail(reqBody) ==
    LET body == OrElse(reqBody, Obj(<<>>))
        from == Get(body, "from")
        to == Get(body, "to")
        recipients == Recipients(to)
    IN  /\ variant = "panel"
        /\ Enter("POST", "/config/email", "")
        /\ emailConfigFrom' = UpdatedFrom(emailConfigFrom, from)
        /\ emergencyEmails' = RecipientEmails(recipients, now)
        /\ \E rnd \in RandomHexes :
              /\ LogHasRoom
              /\ diagnosticLogs' =
                 addLog(diagnosticLogs, "info",
                        "Config de e-mail atualizada via /config/email (remetente="
                            \o OrElse(emailConfigFrom', Str("null")).v
                            \o ", destinatarios="
                            \o NatToString(Len(recipients)) \o ")",
                        Undefined, now, rnd)
        /\ res' = Json(200, [success |-> TRUE,
                             message |-> "Configuracao de e-mail atualizada em memoria."])
        /\ UNCHANGED <<variant, now, afterHoursConfig, chatguruConfig, env,
                       pending, sendMailCalls>>

\* chatguruConfig as the JavaScript object that is serialized
ChatguruObject(cfg) ==
    Obj(<< <<"apiUrl", Str(cfg.apiUrl)>>,
           <<"accountId", Str(cfg.accountId)>>,
           <<"instanceId", Str(cfg.instanceId)>> >>)

\* the three conditional assignments to chatguruConfig
UpdatedChatguru(cfg, body) ==
    LET apiUrl == Get(body, "apiUrl")
        accountId == Get(body, "accountId")
        instanceId == Get(body, "instanceId")
        c1 == IF TypeOf(apiUrl) = "string"
              THEN [cfg EXCEPT !.apiUrl = Trim(apiUrl.v)] ELSE cfg
        c2 == IF TypeOf(accountId) = "string"
              THEN [c1 EXCEPT !.accountId = Trim(accountId.v)] ELSE c1
    IN  IF TypeOf(instanceId) = "string"
        THEN [c2 EXCEPT !.instanceId = Trim(instanceId.v)] ELSE c2

ChatguruBodies ==
    { Obj(<< <<"apiUrl", Str(" https://s1.chatguru.app ")>>,
             <<"accountId", Num(Fin(70))>>,
             <<"instanceId", Str("inst-2")>> >>) }

PanelPostConfigChatguru(reqBody) ==
    LET body == OrElse(reqBody, Obj(<<>>))
    IN  /\ variant = "panel"
        /\ Enter("POST", "/config/chatguru", "")
        /\ chatguruConfig' = UpdatedChatguru(chatguruConfig, body)
        /\ \E rnd \in RandomHexes :
              /\ LogHasRoom
              /\ diagnosticLogs' =
                 addLog(diagnosticLogs, "info",
                        "Config de ChatGuru atualizada via /config/chatguru",
                        Str(JSONStringify(ChatguruObject(chatguruConfig'))),
                        now, rnd)
        /\ res' = Json(200, [success |-> TRUE,
                             message |-> "Configuracao de ChatGuru atualizada em memoria.",
                             config |-> chatguruConfig'])
        /\ UNCHANGED <<variant, now, afterHoursConfig, emergencyEmails,
                       emailConfigFrom, env, pending, sendMailCalls>>

PanelRobotTest ==
    /\ variant = "panel"
    /\ Enter("POST", "/diagnostics/robot/test", "")
    /\ \E rnd \in RandomHexes :
          /\ LogHasRoom
          /\ diagnosticLogs' =
             addLog(diagnosticLogs, "info",
                    "Teste de robo executado via /diagnostics/robot/test",
                    Undefined, now, rnd)
    /\ res' = Json(200, [success |-> TRUE,
                         message |-> "Robo respondeu ao teste (endpoint /diagnostics/robot/test esta ativo)."])
    /\ UNCHANGED <<variant, now, afterHoursConfig, emergencyEmails,
                   emailConfigFrom, chatguruConfig, env, pending,
                   sendMailCalls>>

(***************************************************************************)
(* GET /diagnostics/logs                                                   *)
(***************************************************************************)
DefaultLogLimit == 10

\* the values of req.query.limit: absent, or the text of the parameter
LimitQueries ==
    { Undefined, Str("2"), Str("abc"), Str("0"), Str("-3"), Str("150"),
      Str("1.5") }

\* limitRaw ? Number(limitRaw) : 10
QueryLimit(limitRaw) ==
    IF Truthy(limitRaw)
    THEN IF limitRaw.t = "string" THEN StringToNumber(limitRaw.v) ELSE NaN
    ELSE Fin(DefaultLogLimit * 10)

\* Number.isFinite(limit) && limit > 0 ? limit : 10
SafeLimit(limit) ==
    IF NumberIsFinite(limit) /\ GreaterThanZero(limit)
    THEN limit
    ELSE Fin(DefaultLogLimit * 10)

\* a slice that counts from the end of the array: slice(-end)
SliceFromStart_FromEnd(list, end) ==
    LET k == end.x10 \div 10
    IN  IF k >= Len(list) THEN list
        ELSE SubSeq(list, Len(list) - k + 1, Len(list))

\* list.slice(0, end) for a finite end above 0; slice drops the fraction
SliceFromStart(list, end) ==
    LET k == end.x10 \div 10
    IN  IF k >= Len(list) THEN list ELSE SubSeq(list, 1, k)

PanelGetLogs(limitRaw) ==
    LET limit == QueryLimit(limitRaw)
        safeLimit == SafeLimit(limit)
    IN  /\ variant = "panel"
        /\ Enter("GET", "/diagnostics/logs", "")
        /\ res' = Json(200, SliceFromStart(diagnosticLogs, safeLimit))
        /\ UNCHANGED <<variant, now, afterHoursConfig, emergencyEmails,
                       emailConfigFrom, chatguruConfig, diagnosticLogs, env,
                       pending, sendMailCalls>>

(***************************************************************************)
(* POST /  (webhook, simulation only)                                      *)
(***************************************************************************)
WebhookBodies ==
    { Undefined,
      Arr(<<Num(Fin(10))>>),
      Obj(<< <<"texto_mensagem", Str("oi")>>,
             <<"celular", Str("5511999999999")>> >>) }

\* a webhook that refuses a payload without fields
WebhookResponse_Validated(body) ==
    IF body.v = <<>>
    THEN Json(400, [success |-> FALSE, mode |-> "SIMULATION_ONLY"])
    ELSE Json(200, [success |-> TRUE,
                    mode |-> "SIMULATION_ONLY",
                    robotEnabled |-> afterHoursConfig.robotEnabled,
                    received |-> body])

\* a webhook that echoes the message text only
WebhookResponse_TextOnly(body) ==
    Json(200, [success |-> TRUE,
               mode |-> "SIMULATION_ONLY",
               robotEnabled |-> afterHoursConfig.robotEnabled,
               received |-> Obj(<< <<"texto_mensagem",
                                     Get(body, "texto_mensagem")>> >>)])

WebhookResponse(body) ==
    Json(200, [success |-> TRUE,
               mode |-> "SIMULATION_ONLY",
               robotEnabled |-> afterHoursConfig.robotEnabled,
               received |-> body])

PanelWebhook(reqBody) ==
    LET body == OrElse(reqBody, Obj(<<>>))
    IN  /\ variant = "panel"
        /\ Enter("POST", "/", "")
        /\ \E rnd \in RandomHexes :
              /\ LogHasRoom
              /\ diagnosticLogs' =
                 addLog(diagnosticLogs, "info", "Webhook raiz recebido em /",
                        Str(JSONStringify(body)), now, rnd)
        /\ res' = WebhookResponse(body)
        /\ UNCHANGED <<variant, now, afterHoursConfig, emergencyEmails,
                       emailConfigFrom, chatguruConfig, env, pending,
                       sendMailCalls>>

MailWebhook(reqBody) ==
    LET body == OrElse(reqBody, Obj(<<>>))
    IN  /\ variant = "mail"
        /\ Enter("POST", "/", "")
        /\ res' = WebhookResponse(body)
        /\ UNCHANGED <<variant, now, afterHoursConfig, emergencyEmails,
                       emailConfigFrom, chatguruConfig, diagnosticLogs, env,
                       pending, sendMailCalls>>

BasicWebhook(reqBody) ==
    LET body == OrElse(reqBody, Obj(<<>>))
    IN  /\ variant = "basic"
        /\ Enter("POST", "/", "")
        /\ res' = WebhookResponse(body)
        /\ UNCHANGED <<variant, now, afterHoursConfig, emergencyEmails,
                       emailConfigFrom, chatguruConfig, diagnosticLogs, env,
                       pending, sendMailCalls>>

(***************************************************************************)
(* The three programs.                                                     *)
(***************************************************************************)
Next ==
    \/ Tick
    \/ \E body \in ConfigBodies : PanelPutConfig(body)
    \/ \E body \in ConfigBodies : MailPutConfig(body)
    \/ \E body \in ConfigBodies : BasicPutConfig(body)
    \/ \E body \in EmailBodies : PanelPostEmail(body)
    \/ \E body \in EmailBodies : MailPostEmail(body)
    \/ \E body \in EmailBodies : BasicPostEmail(body)
    \/ \E id \in RequestIds : PanelDeleteEmail(id)
    \/ \E id \in RequestIds : MailDeleteEmail(id)
    \/ \E id \in RequestIds : BasicDeleteEmail(id)
    \/ \E body \in AlertBodies : MailPostAlert(body)
    \/ \E p \in pending : MailSendResolved(p)
    \/ \E p \in pending : MailSendRejected(p)
    \/ \E body \in ConfigEmailBodies : PanelPostConfigEmail(body)
    \/ \E body \in ChatguruBodies : PanelPostConfigChatguru(body)
    \/ PanelRobotTest
    \/ \E body \in WebhookBodies : PanelWebhook(body)
    \/ \E body \in WebhookBodies : MailWebhook(body)
    \/ \E body \in WebhookBodies : BasicWebhook(body)

Spec == Init /\ [][Next]_vars

(***************************************************************************)
(* The diagnostic log of the panel server after it has run for a while:    *)
(* the log-producing handlers and GET /diagnostics/logs, started with the  *)
(* log that a number of robot tests leave behind.                          *)
(***************************************************************************)
\* the numbers of robot tests that were handled before: a short log and one
\* that is one entry away from full
EarlierTests == {4, LogLimit - 2}

\* the log of a server after its start and k < LogLimit robot tests, all at
\* clock 1: k times the entry of a robot test before the entry of the start
LogAfterTests(k, rnd) ==
    LET started == addLog(<<>>, "info",
                          "Servidor iniciado na porta " \o NumberToString(PORT),
                          Undefined, 1, rnd)
        tested == addLog(<<>>, "info",
                         "Teste de robo executado via /diagnostics/robot/test",
                         Undefined, 1, rnd)
    IN  [i \in 1..k |-> tested[1]] \o started

InitLog ==
    /\ variant = "panel"
    /\ env \in Envs(variant)
    /\ now = 1
    /\ afterHoursConfig = InitialConfig
    /\ emergencyEmails = <<>>
    /\ emailConfigFrom = OrElse(env.EMERGENCY_EMAIL_FROM, Null)
    /\ chatguruConfig =
          [apiUrl |-> OrElse(env.CHATGURU_API_URL, Str("")).v,
           accountId |-> OrElse(env.CHATGURU_ACCOUNT_ID, Str("")).v,
           instanceId |-> OrElse(env.CHATGURU_INSTANCE_ID, Str("")).v]
    /\ \E k \in EarlierTests : \E rnd \in RandomHexes :
          diagnosticLogs = LogAfterTests(k, rnd)
    /\ pending = {}
    /\ sendMailCalls = <<>>
    /\ handled = 0
    /\ req = NoRequest
    /\ res = NoResponse

NextLog ==
    \/ Tick
    \/ PanelRobotTest
    \/ \E body \in WebhookBodies : PanelWebhook(body)
    \/ \E body \in ChatguruBodies : PanelPostConfigChatguru(body)
    \/ \E limitRaw \in LimitQueries : PanelGetLogs(limitRaw)

SpecLog == InitLog /\ [][NextLog]_vars


(***************************************************************************)
(* Properties.                                                             *)
(***************************************************************************)
\* one of the three programs handles POST /admin/emergency/emails
PostEmailStep(body) ==
    PanelPostEmail(body) \/ MailPostEmail(body) \/ BasicPostEmail(body)

\* one of the three programs handles PUT /admin/after-hours/config
PutConfigStep(body) ==
    PanelPutConfig(body) \/ MailPutConfig(body) \/ BasicPutConfig(body)

\* one of the three programs handles POST /
WebhookStep(body) ==
    PanelWebhook(body) \/ MailWebhook(body) \/ BasicWebhook(body)

\* this step is a handler that was entered for the given route
Handles(method, path) ==
    /\ handled' = handled + 1
    /\ req'.method = method
    /\ req'.path = path

IdPresent(list, id) == \E i \in 1..Len(list) : list[i].id = id

\* C1: a DELETE naming an id that no contact has answers 404 and leaves the
\* registry as it was; a DELETE that succeeds leaves no contact with that id,
\* so that repeating it, with no add in between, answers 404.
C1_RemoveUnknownIdFails ==
    [][ Handles("DELETE", "/admin/emergency/emails/:id") =>
          /\ ~IdPresent(emergencyEmails, req'.id) =>
                /\ res'.status = 404
                /\ emergencyEmails' = emergencyEmails
          /\ IdPresent(emergencyEmails, req'.id) =>
                /\ res'.status = 200
                /\ ~IdPresent(emergencyEmails', req'.id) ]_vars

\* a second DELETE of an id the log shows as removed has answered 404
C1_Witness ==
    /\ variant = "panel"
    /\ req.method = "DELETE"
    /\ res.status = 404
    /\ \E i \in 1..Len(diagnosticLogs) :
          diagnosticLogs[i].message
             = "E-mail de emergencia removido: id=" \o req.id

\* the e-mail of the body is one the handler accepts
ValidEmail(body) ==
    LET email == Get(OrElse(body, Obj(<<>>)), "email")
    IN  email.t = "string" /\ email.v # ""

\* C2: for every valid e-mail, the add appends one contact, active and with a
\* non-empty generated id, behind the contacts already there; the list that
\* follows contains it and finding by the returned id yields that contact.
C2_AddListFind ==
    [][ \A body \in EmailBodies :
          (PostEmailStep(body) /\ ValidEmail(body)) =>
             /\ res'.status = 200
             /\ emergencyEmails' = Append(emergencyEmails, res'.body.email)
             /\ res'.body.email.active = TRUE
             /\ res'.body.email.id # ""
             /\ \E i \in 1..Len(ListEmails'.body.emails) :
                   ListEmails'.body.emails[i] = res'.body.email
             /\ FindById(ListEmails'.body.emails, res'.body.email.id)
                   = res'.body.email ]_vars

\* C3: no two contacts of the registry have the same id.
C3_UniqueIds ==
    \A i, j \in 1..Len(emergencyEmails) :
        i # j => emergencyEmails[i].id # emergencyEmails[j].id

IsPositiveInteger(n) == n.k = "finite" /\ n.x10 % 10 = 0 /\ n.x10 > 0

\* C4: the stored maxAutoReplies is an integer greater than 0.
C4_MaxAutoRepliesPositiveInteger ==
    IsPositiveInteger(afterHoursConfig.maxAutoReplies)

\* what a field of afterHoursConfig must be after a request with this body:
\* the value the body carries when it is valid, the previous value otherwise
ExpectedConfig(cfg, reqBody) ==
    LET body == OrElse(reqBody, Obj(<<>>))
        robotEnabled == Get(body, "robotEnabled")
        inicio == Get(body, "atendimentoInicio")
        fim == Get(body, "atendimentoFim")
        maxAutoReplies == Get(body, "maxAutoReplies")
    IN  [robotEnabled |->
            IF robotEnabled.t = "boolean" THEN robotEnabled.v
            ELSE cfg.robotEnabled,
         atendimentoInicio |->
            IF inicio.t = "string" THEN inicio.v ELSE cfg.atendimentoInicio,
         atendimentoFim |->
            IF fim.t = "string" THEN fim.v ELSE cfg.atendimentoFim,
         maxAutoReplies |->
            IF /\ maxAutoReplies.t = "number"
               /\ maxAutoReplies.v.k = "finite"
               /\ maxAutoReplies.v.x10 > 0
            THEN Fin((maxAutoReplies.v.x10 \div 10) * 10)
            ELSE cfg.maxAutoReplies]

\* C5: the config update sets exactly the fields for which the request has a
\* valid value (maxAutoReplies a finite positive number, floored), keeps the
\* others, and changes neither the registry, the chat-platform config nor the
\* e-mail sender.
C5_PartialUpdate ==
    [][ \A body \in ConfigBodies :
          PutConfigStep(body) =>
             /\ afterHoursConfig' = ExpectedConfig(afterHoursConfig, body)
             /\ GetConfig'.robotEnabled = afterHoursConfig'.robotEnabled
             /\ GetConfig'.atendimento.inicio
                   = afterHoursConfig'.atendimentoInicio
             /\ emergencyEmails' = emergencyEmails
             /\ chatguruConfig' = chatguruConfig
             /\ emailConfigFrom' = emailConfigFrom ]_vars

\* C6: with real mail delivery, an alert requested while no contact is active
\* answers 400 and calls the transport not at all, whatever the SMTP settings.
C6_NoRecipients ==
    [][ (variant = "mail" /\ Handles("POST", "/admin/emergency/alert")
            /\ \A i \in 1..Len(emergencyEmails) : ~emergencyEmails[i].active) =>
          /\ res'.status = 400
          /\ res'.body.success = FALSE
          /\ sendMailCalls' = sendMailCalls
          /\ pending' = pending ]_vars

\* an alert was refused for want of recipients although SMTP is configured
C6_Witness ==
    /\ variant = "mail"
    /\ req.path = "/admin/emergency/alert"
    /\ res.status = 400
    /\ res.body.message = "Nenhum e-mail de emergencia ativo cadastrado."
    /\ emergencyEmails = <<>>
    /\ Truthy(env.SMTP_HOST) /\ Truthy(env.SMTP_USER) /\ Truthy(env.SMTP_PASS)
    /\ env.SMTP_PORT = Undefined

\* one of host, port, user and credential of the transport is missing
Unconfigured ==
    \/ ~Truthy(smtpHost)
    \/ ~Truthy(smtpPort)
    \/ ~Truthy(smtpUser)
    \/ ~Truthy(smtpPass)

\* C7: with real mail delivery, an alert with subject, message and an active
\* contact, requested while the transport is unconfigured, answers 200 with
\* success and emailSent false, calls the transport not at all and changes
\* neither the registry nor the config.
C7_TransportUnavailable ==
    [][ \A body \in AlertBodies :
          (/\ MailPostAlert(body)
           /\ Truthy(Get(OrElse(body, Obj(<<>>)), "subject"))
           /\ Truthy(Get(OrElse(body, Obj(<<>>)), "message"))
           /\ \E i \in 1..Len(emergencyEmails) : emergencyEmails[i].active
           /\ Unconfigured) =>
             /\ res'.status = 200
             /\ res'.body.success = FALSE
             /\ res'.body.emailSent = FALSE
             /\ sendMailCalls' = sendMailCalls
             /\ pending' = pending
             /\ emergencyEmails' = emergencyEmails
             /\ afterHoursConfig' = afterHoursConfig ]_vars

\* an alert for one contact got the soft failure, the password being unset
C7_Witness ==
    /\ variant = "mail"
    /\ req.path = "/admin/emergency/alert"
    /\ res.status = 200
    /\ res.body.success = FALSE
    /\ res.body.emailSent = FALSE
    /\ env.SMTP_PASS = Undefined
    /\ Len(emergencyEmails) > 0
    /\ sendMailCalls = <<>>

\* C8: with real mail delivery, the transport is called at most once for a
\* request, and only by the handler of that request; a send that fails ends
\* the request with 500, success and emailSent false, a send that succeeds
\* with success and emailSent true; neither calls the transport again.
C8_AtMostOnce ==
    [][ /\ \A i, j \in 1..Len(sendMailCalls') :
              i # j => sendMailCalls'[i].request # sendMailCalls'[j].request
        /\ \/ sendMailCalls' = sendMailCalls
           \/ /\ Handles("POST", "/admin/emergency/alert")
              /\ Len(sendMailCalls') = Len(sendMailCalls) + 1
              /\ SubSeq(sendMailCalls', 1, Len(sendMailCalls)) = sendMailCalls
              /\ sendMailCalls'[Len(sendMailCalls')].request = handled'
        /\ \A p \in pending :
              /\ MailSendRejected(p) =>
                    /\ res'.status = 500
                    /\ res'.body.success = FALSE
                    /\ res'.body.emailSent = FALSE
                    /\ sendMailCalls' = sendMailCalls
                    /\ p \notin pending'
              /\ MailSendResolved(p) =>
                    /\ res'.status = 200
                    /\ res'.body.success = TRUE
                    /\ res'.body.emailSent = TRUE
                    /\ sendMailCalls' = sendMailCalls
                    /\ p \notin pending' ]_vars

\* the one send of an alert has failed and the request has ended with 500
C8_Witness ==
    /\ variant = "mail"
    /\ req.path = "/admin/emergency/alert"
    /\ res.status = 500
    /\ res.body.emailSent = FALSE
    /\ Len(sendMailCalls) = 1
    /\ pending = {}

\* C9: the webhook answers 200 whatever the payload, calls no transport and
\* changes nothing but the diagnostic log, to which it adds at most one entry.
C9_WebhookFrame ==
    [][ Handles("POST", "/") =>
          /\ res'.status = 200
          /\ sendMailCalls' = sendMailCalls
          /\ pending' = pending
          /\ afterHoursConfig' = afterHoursConfig
          /\ chatguruConfig' = chatguruConfig
          /\ emailConfigFrom' = emailConfigFrom
          /\ emergencyEmails' = emergencyEmails
          /\ \/ diagnosticLogs' = diagnosticLogs
             \/ /\ Len(diagnosticLogs') = Len(diagnosticLogs) + 1
                /\ Tail(diagnosticLogs') = diagnosticLogs ]_vars

\* a webhook without a body was answered while the registry held a contact
C9_Witness ==
    /\ req.path = "/"
    /\ res.status = 200
    /\ res.body.received = Obj(<<>>)
    /\ Len(emergencyEmails) > 0

\* C10 as stated: the answer has mode SIMULATION_ONLY and a receivedSummary
\* whose texto_mensagem is "oi" when that of the payload is.
C10_ReceivedSummary ==
    [][ \A body \in WebhookBodies :
          (WebhookStep(body) /\ Get(body, "texto_mensagem") = Str("oi")) =>
             /\ res'.body.mode = "SIMULATION_ONLY"
             /\ "receivedSummary" \in DOMAIN res'.body
             /\ Get(res'.body.receivedSummary, "texto_mensagem") = Str("oi")
      ]_vars

\* C10 as amended: the answer has mode SIMULATION_ONLY and a field received
\* that is the payload itself, {} for an absent body, so that
\* received.texto_mensagem is "oi" when that of the payload is.
C10_ReceivedEcho ==
    [][ \A body \in WebhookBodies :
          WebhookStep(body) =>
             /\ res'.body.mode = "SIMULATION_ONLY"
             /\ DOMAIN res'.body
                   = {"success", "mode", "robotEnabled", "received"}
             /\ res'.body.received = (IF body = Undefined THEN Obj(<<>>) ELSE body)
             /\ Get(body, "texto_mensagem") = Str("oi") =>
                   Get(res'.body.received, "texto_mensagem") = Str("oi")
      ]_vars

\* the webhook has answered a payload whose texto_mensagem is "oi"
C10_Witness ==
    /\ req.path = "/"
    /\ res.body.mode = "SIMULATION_ONLY"
    /\ Get(res.body.received, "texto_mensagem") = Str("oi")
    /\ Get(res.body.received, "celular") = Str("5511999999999")

\* the contacts of the list that have another id, in their order
ContactsWithOtherId(list, id) ==
    LET Other(c) == c.id # id IN SelectSeq(list, Other)

\* this step is an add that put exactly one contact behind those that exist
AddedOne ==
    /\ Handles("POST", "/admin/emergency/emails")
    /\ Len(emergencyEmails') = Len(emergencyEmails) + 1
    /\ SubSeq(emergencyEmails', 1, Len(emergencyEmails)) = emergencyEmails

\* this step is a remove-by-id that took out the contacts of that id and
\* kept all others as they were
RemovedById ==
    /\ Handles("DELETE", "/admin/emergency/emails/:id")
    /\ emergencyEmails' = ContactsWithOtherId(emergencyEmails, req'.id)

\* C11 as stated: the registry changes only by an add of one contact or by a
\* remove-by-id, which leave every other contact as it was; POST /config/email
\* leaves the registry alone.
C11_OnlyAddAndRemove ==
    [][ /\ emergencyEmails' # emergencyEmails => (AddedOne \/ RemovedById)
        /\ Handles("POST", "/config/email") =>
              emergencyEmails' = emergencyEmails ]_vars

\* C11 as amended: the registry changes only by an add of one contact, by a
\* remove-by-id, or by POST /config/email, which replaces the whole registry
\* by one new active contact for each non-blank trimmed entry of "to", none
\* when "to" is absent; no step changes a field of a contact that stays.
C11_AddRemoveOrReplace ==
    [][ /\ emergencyEmails' # emergencyEmails =>
              \/ AddedOne
              \/ RemovedById
              \/ Handles("POST", "/config/email")
        /\ \A body \in ConfigEmailBodies :
              PanelPostConfigEmail(body) =>
                 LET kept == Recipients(Get(body, "to"))
                 IN  /\ Len(emergencyEmails') = Len(kept)
                     /\ \A i \in 1..Len(kept) :
                           /\ emergencyEmails'[i].email = kept[i]
                           /\ emergencyEmails'[i].name = kept[i]
                           /\ emergencyEmails'[i].active = TRUE
                           /\ emergencyEmails'[i].createdAt = ToISOString(now)
      ]_vars

\* POST /config/email without recipients has emptied a registry to which the
\* log shows a contact was added
C11_Witness ==
    /\ variant = "panel"
    /\ req.path = "/config/email"
    /\ emergencyEmails = <<>>
    /\ \E i \in 1..Len(diagnosticLogs) :
          Len(diagnosticLogs[i].message) > 33
             /\ SubSeq(diagnosticLogs[i].message, 1, 33)
                   = "E-mail de emergencia adicionado: "

\* this step is one of the handlers of NextLog that call addLog
LogProducingStep ==
    \/ Handles("POST", "/diagnostics/robot/test")
    \/ Handles("POST", "/")
    \/ Handles("POST", "/config/chatguru")

\* C12: the log never holds more than 100 entries; a log-producing handler
\* puts its entry, stamped with the present clock, at the head and keeps the
\* earlier entries behind it in their order, without the last (oldest) one
\* when the log was full; no other step changes the log.
C12_BoundedNewestFirst ==
    [][ /\ Len(diagnosticLogs) <= LogLimit
        /\ Len(diagnosticLogs') <= LogLimit
        /\ LogProducingStep =>
              /\ diagnosticLogs'[1].timestamp = ToISOString(now)
              /\ Tail(diagnosticLogs')
                    = IF Len(diagnosticLogs) < LogLimit
                      THEN diagnosticLogs
                      ELSE SubSeq(diagnosticLogs, 1, LogLimit - 1)
        /\ ~LogProducingStep => diagnosticLogs' = diagnosticLogs ]_vars

\* the log is full, its oldest entry (that of the server start) has been
\* dropped, and an entry of the later clock stands before one of the earlier
C12_Witness ==
    /\ Len(diagnosticLogs) = LogLimit
    /\ diagnosticLogs[LogLimit].message
          = "Teste de robo executado via /diagnostics/robot/test"
    /\ diagnosticLogs[1].timestamp = ToISOString(2)
    /\ diagnosticLogs[2].timestamp = ToISOString(1)

\* the text is a decimal numeral of an integer above 0
IsPositiveNumeral(text) ==
    /\ text # ""
    /\ \A i \in 1..Len(text) : IsDigit(SubSeq(text, i, i))
    /\ DigitsToNat(text) > 0

\* the limit parameter has a fraction
HasFraction(limitRaw) ==
    /\ limitRaw.t = "string"
    /\ \E i \in 1..Len(limitRaw.v) : SubSeq(limitRaw.v, i, i) = "."

\* the limit that counts: that of the query when it is an integer above 0,
\* and 10 when it is absent, not a number, zero or negative
EffectiveLimit(limitRaw) ==
    IF limitRaw.t = "string" /\ IsPositiveNumeral(limitRaw.v)
    THEN DigitsToNat(limitRaw.v)
    ELSE 10

CallOf(p) ==
    sendMailCalls[CHOOSE i \in 1..Len(sendMailCalls) :
                     sendMailCalls[i].request = p.request]

\* this step is a handler of another request, run from entry to response or
\* to its await
OtherRequestStep == handled' = handled + 1

\* C14: a handler that runs while alerts are in flight leaves them in flight
\* and their calls to sendMail as they were made, whatever it does to the
\* registry; the recipients of a call are the active contacts at the moment
\* its handler started; an alert with subject, message, recipients and
\* transport makes its call whether or not other alerts are in flight; and a
\* send that completes changes no call.
C14_SnapshotRecipients ==
    [][ /\ Len(sendMailCalls') >= Len(sendMailCalls)
        /\ SubSeq(sendMailCalls', 1, Len(sendMailCalls)) = sendMailCalls
        /\ \A i \in (Len(sendMailCalls) + 1)..Len(sendMailCalls') :
              sendMailCalls'[i].mail.to
                 = Join(ActiveEmails(emergencyEmails), ",")
        /\ OtherRequestStep => pending \subseteq pending'
        /\ \A p \in pending' : \E i \in 1..Len(sendMailCalls') :
              sendMailCalls'[i].request = p.request
        /\ \A body \in AlertBodies :
              (/\ MailPostAlert(body)
               /\ Truthy(Get(body, "subject")) /\ Truthy(Get(body, "message"))
               /\ ActiveEmails(emergencyEmails) # <<>>
               /\ canSendEmail) =>
                  /\ Len(sendMailCalls') = Len(sendMailCalls) + 1
                  /\ Cardinality(pending') = Cardinality(pending) + 1
      ]_vars

\* an alert is in flight to a recipient list that is no longer that of the
\* active contacts: the registry was changed after its handler started
C14_Witness ==
    /\ variant = "mail"
    /\ \E p \in pending :
          CallOf(p).mail.to # Join(ActiveEmails(emergencyEmails), ",")

\* two alerts have called sendMail with the same recipient list, the second
\* while the first was in flight, and one of them has been delivered
C14_TwoAlertsOneSnapshot ==
    /\ variant = "mail"
    /\ Len(sendMailCalls) = 2
    /\ sendMailCalls[1].mail.to = sendMailCalls[2].mail.to
    /\ Cardinality(pending) = 1
    /\ \A p \in pending : p.request = sendMailCalls[1].request
    /\ res.status = 200
    /\ res.body.emailSent = TRUE

\* C15: every contact of the registry has a non-empty e-mail, and so has
\* every recipient list handed to sendMail no empty address in it.
C15_NonEmptyEmails ==
    /\ \A i \in 1..Len(emergencyEmails) : emergencyEmails[i].email # ""
    /\ \A i \in 1..Len(ActiveEmails(emergencyEmails)) :
          ActiveEmails(emergencyEmails)[i] # ""

=============================================================================
